---- MODULE Spec2Model ----
(***************************************************************************)
(* Video-to-blog pipeline of app.py: one script run ("request") of main()  *)
(* with its temporary files, the handles of extract_audio, the two remote  *)
(* calls and the end-of-request cleanup loop.                              *)
(***************************************************************************)
EXTENDS Integers, Sequences, FiniteSets, TLC

\* ---------------------------------------------------------------- bounds
MaxRequests == 2          \* script runs modelled one after another
MaxCalls == 3             \* cap of the per-stage invocation counters

\* ---------------------------------------------------------------- domains
Stages == {"extraction", "transcription", "generation"}
VideoKinds == {"ok", "noaudio", "corrupt"}     \* what the uploaded bytes decode to
Transcripts == {"hello world", "second take"}  \* transcription.text
Blogs == {"# Title A", "# Title B"}            \* response.choices[0].message.content
NoText == "<unset>"

VARIABLES
    pc,            \* position of the script run
    req,           \* number of the current script run
    client,        \* module-level OpenAI client: "ok" or "None"
    fs,            \* files on disk: <<request, "video" | "audio">>
    videoKind,     \* content of the uploaded file
    video,         \* local `video` of extract_audio: "None","open","closed","closefailed"
    audio,         \* local `audio` of extract_audio, same values
    exc,           \* exception pending in extract_audio ("none" if none)
    msgs,          \* what the page shows in this run, in order
    triggered,     \* st.button("Generate Blog") returned True in this run
    started,       \* stages whose spinner block was entered
    calls,         \* invocations: extractor, transcription service, generation service
    result,        \* per stage "none" | "ok" | "fail"
    extractErr,    \* error with which extract_audio raised ("none" if it did not)
    wrote,         \* write_audiofile was invoked in this run
    transcript,    \* local `transcript` of main
    blog_content,  \* local `blog_content` of main
    genReturned,   \* value the generation service returned
    outcome,       \* "none" | "Done" | "Failed"
    idx,           \* index of the cleanup loop
    tried,         \* files the cleanup loop has handled
    delFailed,     \* files whose os.unlink raised
    escaped,       \* an exception reached the outer handler of main (line 202)
    raised,        \* error raised in the try body of extract_audio ("none" if none)
    deleted        \* files the cleanup loop unlinked

vars == <<pc, req, client, fs, videoKind, video, audio, exc, msgs, triggered,
          started, calls, result, extractErr, wrote, transcript, blog_content,
          genReturned, outcome, idx, tried, delFailed, escaped, raised, deleted>>

\* ---------------------------------------------------------------- helpers
video_path == <<req, "video">>      \* tmp_file.name
output_path == <<req, "audio">>     \* Path(video_path).with_suffix('.mp3')

Msg(k, s, d) == [kind |-> k, src |-> s, data |-> d]
Shown(k, s) == \E i \in 1..Len(msgs) : msgs[i].kind = k /\ msgs[i].src = s

NoCalls == [s \in Stages |-> 0]
NoResult == [s \in Stages |-> "none"]

\* the list the cleanup loop walks
CleanupList_VideoOnly == <<"video">>
CleanupList == <<"video", "audio">>

Init ==
    /\ pc = "Idle"
    /\ req = 1
    /\ client = "None"
    /\ fs = {}
    /\ videoKind = "ok"
    /\ video = "None"
    /\ audio = "None"
    /\ exc = "none"
    /\ msgs = <<>>
    /\ triggered = FALSE
    /\ started = {}
    /\ calls = NoCalls
    /\ result = NoResult
    /\ extractErr = "none"
    /\ wrote = FALSE
    /\ transcript = NoText
    /\ blog_content = NoText
    /\ genReturned = NoText
    /\ outcome = "none"
    /\ idx = 1
    /\ tried = {}
    /\ delFailed = {}
    /\ escaped = FALSE
    /\ raised = "none"
    /\ deleted = {}

\* ---------------------------------------------------------------- module level
\* client = OpenAI(api_key=st.secrets[...]) or, on any exception, st.error and None
InitClient ==
    /\ pc = "Idle"
    /\ \E ok \in BOOLEAN :
          IF ok
          THEN client' = "ok" /\ msgs' = msgs
          ELSE client' = "None" /\ msgs' = Append(msgs, Msg("error", "init", "client"))
    /\ pc' = "Main"
    /\ UNCHANGED <<req, fs, videoKind, video, audio, exc, triggered, started, calls,
                   result, extractErr, wrote, transcript, blog_content, genReturned,
                   outcome, idx, tried, delFailed, escaped, raised,
                   deleted>>

\* ---------------------------------------------------------------- main: upload
\* uploaded_file is None: the script run ends
NoUpload ==
    /\ pc = "Main"
    /\ pc' = "End"
    /\ UNCHANGED <<req, client, fs, videoKind, video, audio, exc, msgs, triggered,
                   started, calls, result, extractErr, wrote, transcript, blog_content,
                   genReturned, outcome, idx, tried, delFailed, escaped, raised,
                   deleted>>

\* NamedTemporaryFile(delete=False) is created, written and flushed
SaveUpload ==
    /\ pc = "Main"
    /\ \E k \in VideoKinds : videoKind' = k
    /\ fs' = fs \cup {video_path}
    /\ msgs' = Append(msgs, Msg("write", "main", "tmp"))
    /\ pc' = "Button"
    /\ UNCHANGED <<req, client, video, audio, exc, triggered, started, calls, result,
                   extractErr, wrote, transcript, blog_content, genReturned, outcome,
                   idx, tried, delFailed, escaped, raised,
                   deleted>>

\* creating or writing the temp file raises: the outer handler reports it. With
\* delete=False a file that was created stays on disk when write() raises.
SaveUploadFail ==
    /\ pc = "Main"
    /\ \E created \in BOOLEAN :
          fs' = IF created THEN fs \cup {video_path} ELSE fs
    /\ msgs' = Append(msgs, Msg("error", "upload", "exception"))
    /\ escaped' = TRUE
    /\ pc' = "End"
    /\ UNCHANGED <<req, client, videoKind, video, audio, exc, triggered, started, calls,
                   result, extractErr, wrote, transcript, blog_content, genReturned,
                   outcome, idx, tried, delFailed, raised,
                   deleted>>

\* st.button("Generate Blog") is False: nothing else runs in this script run
ButtonNotPressed ==
    /\ pc = "Button"
    /\ pc' = "End"
    /\ UNCHANGED <<req, client, fs, videoKind, video, audio, exc, msgs, triggered,
                   started, calls, result, extractErr, wrote, transcript, blog_content,
                   genReturned, outcome, idx, tried, delFailed, escaped, raised,
                   deleted>>

\* st.button is True: the extraction spinner is entered and extract_audio called
ButtonPressed ==
    /\ pc = "Button"
    /\ triggered' = TRUE
    /\ started' = started \cup {"extraction"}
    /\ calls["extraction"] < MaxCalls
    /\ calls' = [calls EXCEPT !["extraction"] = @ + 1]
    /\ video' = "None"
    /\ audio' = "None"
    /\ exc' = "none"
    /\ pc' = "EA_Start"
    /\ UNCHANGED <<req, client, fs, videoKind, msgs, result, extractErr, wrote,
                   transcript, blog_content, genReturned, outcome, idx, tried,
                   delFailed, escaped, raised,
                   deleted>>

\* another process removes a temp file of the running request (the code tests
\* Path.exists() before the load, after the extraction and before each unlink)
ExternalRemove ==
    /\ pc \in {"Button", "CheckExtracted", "Transcribing"}
    /\ \E f \in {video_path, output_path} :
          /\ f \in fs
          /\ fs' = fs \ {f}
    /\ UNCHANGED <<pc, req, client, videoKind, video, audio, exc, msgs, triggered,
                   started, calls, result, extractErr, wrote, transcript, blog_content,
                   genReturned, outcome, idx, tried, delFailed, escaped, raised,
                   deleted>>


\* ---------------------------------------------------------------- extract_audio
\* Tuple of everything extract_audio leaves alone
mainState == <<req, client, videoKind, msgs, triggered, started, calls, transcript,
               blog_content, genReturned, outcome, idx, tried, delFailed, escaped,
               deleted>>

\* video_path does not exist: raise FileNotFoundError
EA_NotFound ==
    /\ pc = "EA_Start"
    /\ video_path \notin fs
    /\ exc' = "NotFound"
    /\ raised' = "NotFound"
    /\ pc' = "EA_Except"
    /\ UNCHANGED <<mainState, fs, video, audio, result, extractErr, wrote>>

\* video_path exists: the two debug lines are written, the parent directory made
EA_PathOk ==
    /\ pc = "EA_Start"
    /\ video_path \in fs
    /\ msgs' = Append(msgs, Msg("write", "extract_audio", "paths"))
    /\ pc' = "EA_Load"
    /\ UNCHANGED <<req, client, fs, videoKind, video, audio, exc, triggered, started,
                   calls, result, extractErr, wrote, transcript, blog_content,
                   genReturned, outcome, idx, tried, delFailed, escaped, raised,
                   deleted>>

\* VideoFileClip(...) raises: `video` stays None
EA_LoadFail ==
    /\ pc = "EA_Load"
    /\ videoKind = "corrupt"
    /\ exc' = "LoadError"
    /\ raised' = "LoadError"
    /\ pc' = "EA_Except"
    /\ UNCHANGED <<mainState, fs, video, audio, result, extractErr, wrote>>

\* VideoFileClip(...) returns a clip: `video` holds an open decoder handle
EA_LoadOk ==
    /\ pc = "EA_Load"
    /\ videoKind # "corrupt"
    /\ video' = "open"
    /\ pc' = "EA_CheckAudio"
    /\ UNCHANGED <<mainState, fs, audio, exc, result, extractErr, wrote, raised>>

\* a version without the audio test: the write is attempted on a missing track
EA_CheckAudio_NoTest ==
    /\ pc = "EA_CheckAudio"
    /\ IF videoKind = "ok"
       THEN /\ audio' = "open"
            /\ msgs' = Append(msgs, Msg("write", "extract_audio", "extracting"))
            /\ pc' = "EA_Write"
            /\ UNCHANGED <<exc, raised, wrote,
                   deleted>>
       ELSE /\ exc' = "AttributeError"
            /\ raised' = "AttributeError"
            /\ wrote' = TRUE
            /\ pc' = "EA_Except"
            /\ UNCHANGED <<audio, msgs,
                   deleted>>
    /\ UNCHANGED <<req, client, fs, videoKind, video, triggered, started, calls, result,
                   extractErr, transcript, blog_content, genReturned, outcome, idx,
                   tried, delFailed, escaped,
                   deleted>>

\* hasattr(video, 'audio') and video.audio is not None, else raise ValueError
EA_CheckAudio ==
    /\ pc = "EA_CheckAudio"
    /\ IF videoKind = "ok"
       THEN /\ audio' = "open"
            /\ msgs' = Append(msgs, Msg("write", "extract_audio", "extracting"))
            /\ pc' = "EA_Write"
            /\ UNCHANGED <<exc, raised,
                   deleted>>
       ELSE /\ exc' = "NoAudioTrack"
            /\ raised' = "NoAudioTrack"
            /\ pc' = "EA_Except"
            /\ UNCHANGED <<audio, msgs,
                   deleted>>
    /\ UNCHANGED <<req, client, fs, videoKind, video, triggered, started, calls, result,
                   extractErr, wrote, transcript, blog_content, genReturned, outcome,
                   idx, tried, delFailed, escaped,
                   deleted>>

\* audio.write_audiofile(...) completes: the audio file is on disk
EA_WriteOk ==
    /\ pc = "EA_Write"
    /\ wrote' = TRUE
    /\ fs' = fs \cup {output_path}
    /\ msgs' = Append(msgs, Msg("write", "extract_audio", "complete"))
    /\ pc' = "EA_Finally_audio"
    /\ UNCHANGED <<req, client, videoKind, video, audio, exc, triggered, started, calls,
                   result, extractErr, transcript, blog_content, genReturned, outcome,
                   idx, tried, delFailed, escaped, raised,
                   deleted>>

\* audio.write_audiofile(...) raises, possibly after creating part of the file
EA_WriteFail ==
    /\ pc = "EA_Write"
    /\ wrote' = TRUE
    /\ \E partial \in BOOLEAN :
          fs' = IF partial THEN fs \cup {output_path} ELSE fs
    /\ exc' = "WriteError"
    /\ raised' = "WriteError"
    /\ pc' = "EA_Except"
    /\ UNCHANGED <<mainState, video, audio, result, extractErr>>

\* except Exception: st.error(...), a second st.error if video is None, raise
EA_Except ==
    /\ pc = "EA_Except"
    /\ msgs' = IF video = "None"
               THEN msgs \o <<Msg("error", "extract_audio", exc),
                              Msg("error", "extract_audio", "not loaded")>>
               ELSE Append(msgs, Msg("error", "extract_audio", exc))
    /\ pc' = "EA_Finally_audio"
    /\ UNCHANGED <<req, client, fs, videoKind, video, audio, exc, triggered, started,
                   calls, result, extractErr, wrote, transcript, blog_content,
                   genReturned, outcome, idx, tried, delFailed, escaped, raised,
                   deleted>>

\* finally: if audio is not None: try audio.close() except: pass
EA_Finally_audio ==
    /\ pc = "EA_Finally_audio"
    /\ IF audio = "None"
       THEN audio' = audio
       ELSE \E closeFails \in BOOLEAN :
               audio' = IF closeFails THEN "closefailed" ELSE "closed"
    /\ pc' = "EA_Finally_video"
    /\ UNCHANGED <<mainState, fs, video, exc, result, extractErr, wrote, raised>>

\* a version that closes the clip at the end of the try body, not in finally
EA_Finally_video_OnSuccessOnly ==
    /\ pc = "EA_Finally_video"
    /\ IF video = "None" \/ exc # "none"
       THEN video' = video
       ELSE \E closeFails \in BOOLEAN :
               video' = IF closeFails THEN "closefailed" ELSE "closed"
    /\ extractErr' = exc
    /\ result' = [result EXCEPT !["extraction"] = IF exc = "none" THEN "ok" ELSE "fail"]
    /\ pc' = IF exc = "none" THEN "CheckExtracted" ELSE "MainExcept"
    /\ UNCHANGED <<mainState, fs, audio, exc, wrote, raised>>

\* finally: if video is not None: try video.close() except: pass; then the
\* call returns str(output_path) or the pending exception propagates
EA_Finally_video ==
    /\ pc = "EA_Finally_video"
    /\ IF video = "None"
       THEN video' = video
       ELSE \E closeFails \in BOOLEAN :
               video' = IF closeFails THEN "closefailed" ELSE "closed"
    /\ extractErr' = exc
    /\ result' = [result EXCEPT !["extraction"] = IF exc = "none" THEN "ok" ELSE "fail"]
    /\ pc' = IF exc = "none" THEN "CheckExtracted" ELSE "MainExcept"
    /\ UNCHANGED <<mainState, fs, audio, exc, wrote, raised>>

\* ---------------------------------------------------------------- main: stages
\* if audio_file and Path(audio_file).exists(): st.success, and the transcription
\* spinner is entered; else raise ValueError("Audio extraction failed")
CheckExtracted ==
    /\ pc = "CheckExtracted"
    /\ IF output_path \in fs
       THEN /\ msgs' = Append(msgs, Msg("success", "main", "extraction"))
            /\ started' = started \cup {"transcription"}
            /\ pc' = "Transcribing"
            /\ UNCHANGED result
       ELSE /\ result' = [result EXCEPT !["extraction"] = "fail"]
            /\ pc' = "MainExcept"
            /\ UNCHANGED <<msgs, started,
                   deleted>>
    /\ UNCHANGED <<req, client, fs, videoKind, video, audio, exc, triggered, calls,
                   extractErr, wrote, transcript, blog_content, genReturned, outcome,
                   idx, tried, delFailed, escaped, raised,
                   deleted>>

\* open(audio_file, "rb") raises, or client is None and client.audio raises
\* AttributeError: the service is not called
TranscribeNoCall ==
    /\ pc = "Transcribing"
    /\ output_path \notin fs \/ client = "None"
    /\ result' = [result EXCEPT !["transcription"] = "fail"]
    /\ pc' = "MainExcept"
    /\ UNCHANGED <<req, client, fs, videoKind, video, audio, exc, msgs, triggered,
                   started, calls, extractErr, wrote, transcript, blog_content,
                   genReturned, outcome, idx, tried, delFailed, escaped, raised,
                   deleted>>

\* client.audio.transcriptions.create(...) returns: transcript shown in the
\* expander, the generation spinner is entered
TranscribeOk ==
    /\ pc = "Transcribing"
    /\ output_path \in fs /\ client = "ok"
    /\ calls["transcription"] < MaxCalls
    /\ calls' = [calls EXCEPT !["transcription"] = @ + 1]
    /\ \E t \in Transcripts :
          /\ transcript' = t
          /\ msgs' = msgs \o <<Msg("success", "main", "transcription"),
                               Msg("text", "main", t)>>
    /\ result' = [result EXCEPT !["transcription"] = "ok"]
    /\ started' = started \cup {"generation"}
    /\ pc' = "Generating"
    /\ UNCHANGED <<req, client, fs, videoKind, video, audio, exc, triggered, extractErr,
                   wrote, blog_content, genReturned, outcome, idx, tried, delFailed,
                   escaped, raised,
                   deleted>>

\* a version that swallows the failure and goes on to the generation stage
TranscribeFail_Swallow ==
    /\ pc = "Transcribing"
    /\ output_path \in fs /\ client = "ok"
    /\ calls["transcription"] < MaxCalls
    /\ calls' = [calls EXCEPT !["transcription"] = @ + 1]
    /\ result' = [result EXCEPT !["transcription"] = "fail"]
    /\ started' = started \cup {"generation"}
    /\ pc' = "Generating"
    /\ UNCHANGED <<req, client, fs, videoKind, video, audio, exc, msgs, triggered,
                   extractErr, wrote, transcript, blog_content, genReturned, outcome,
                   idx, tried, delFailed, escaped, raised,
                   deleted>>

\* client.audio.transcriptions.create(...) raises: nothing in the stage catches
\* it, it goes to the except clause of main
TranscribeFail ==
    /\ pc = "Transcribing"
    /\ output_path \in fs /\ client = "ok"
    /\ calls["transcription"] < MaxCalls
    /\ calls' = [calls EXCEPT !["transcription"] = @ + 1]
    /\ result' = [result EXCEPT !["transcription"] = "fail"]
    /\ pc' = "MainExcept"
    /\ UNCHANGED <<req, client, fs, videoKind, video, audio, exc, msgs, triggered,
                   started, extractErr, wrote, transcript, blog_content, genReturned,
                   outcome, idx, tried, delFailed, escaped, raised,
                   deleted>>

\* generate_blog: client.chat.completions.create(...) returns the post
GenerateOk ==
    /\ pc = "Generating"
    /\ calls["generation"] < MaxCalls
    /\ calls' = [calls EXCEPT !["generation"] = @ + 1]
    /\ \E b \in Blogs :
          /\ genReturned' = b
          /\ blog_content' = b
    /\ result' = [result EXCEPT !["generation"] = "ok"]
    /\ msgs' = Append(msgs, Msg("success", "main", "generation"))
    /\ pc' = "Display"
    /\ UNCHANGED <<req, client, fs, videoKind, video, audio, exc, triggered, started,
                   extractErr, wrote, transcript, outcome, idx, tried, delFailed,
                   escaped, raised,
                   deleted>>

\* a version that calls the service again after a failure
GenerateFail_Retry ==
    /\ pc = "Generating"
    /\ calls["generation"] < MaxCalls
    /\ calls' = [calls EXCEPT !["generation"] = @ + 1]
    /\ msgs' = Append(msgs, Msg("error", "generate_blog", "exception"))
    /\ UNCHANGED <<pc, req, client, fs, videoKind, video, audio, exc, triggered, started,
                   result, extractErr, wrote, transcript, blog_content, genReturned,
                   outcome, idx, tried, delFailed, escaped, raised,
                   deleted>>

\* generate_blog: the call raises; except Exception: st.error(...), raise
GenerateFail ==
    /\ pc = "Generating"
    /\ calls["generation"] < MaxCalls
    /\ calls' = [calls EXCEPT !["generation"] = @ + 1]
    /\ result' = [result EXCEPT !["generation"] = "fail"]
    /\ msgs' = Append(msgs, Msg("error", "generate_blog", "exception"))
    /\ pc' = "MainExcept"
    /\ UNCHANGED <<req, client, fs, videoKind, video, audio, exc, triggered, started,
                   extractErr, wrote, transcript, blog_content, genReturned, outcome,
                   idx, tried, delFailed, escaped, raised,
                   deleted>>

\* a version that offers the transcript instead of the post for download
Display_WrongData ==
    /\ pc = "Display"
    /\ msgs' = msgs \o <<Msg("markdown", "main", blog_content),
                         Msg("download", "blog_post.md", transcript)>>
    /\ outcome' = "Done"
    /\ idx' = 1
    /\ pc' = "Cleanup"
    /\ UNCHANGED <<req, client, fs, videoKind, video, audio, exc, triggered, started,
                   calls, result, extractErr, wrote, transcript, blog_content,
                   genReturned, tried, delFailed, escaped, raised,
                   deleted>>

\* st.markdown(blog_content); st.download_button(data=blog_content,
\* file_name="blog_post.md"); then the finally clause
Display ==
    /\ pc = "Display"
    /\ msgs' = msgs \o <<Msg("markdown", "main", blog_content),
                         Msg("download", "blog_post.md", blog_content)>>
    /\ outcome' = "Done"
    /\ idx' = 1
    /\ pc' = "Cleanup"
    /\ UNCHANGED <<req, client, fs, videoKind, video, audio, exc, triggered, started,
                   calls, result, extractErr, wrote, transcript, blog_content,
                   genReturned, tried, delFailed, escaped, raised,
                   deleted>>

\* except Exception as e: st.error(f"An error occurred: {e}"); then finally
MainExcept ==
    /\ pc = "MainExcept"
    /\ msgs' = Append(msgs, Msg("error", "main", "exception"))
    /\ outcome' = "Failed"
    /\ idx' = 1
    /\ pc' = "Cleanup"
    /\ UNCHANGED <<req, client, fs, videoKind, video, audio, exc, triggered, started,
                   calls, result, extractErr, wrote, transcript, blog_content,
                   genReturned, tried, delFailed, escaped, raised,
                   deleted>>

\* ---------------------------------------------------------------- main: cleanup
\* the file the loop is at
CleanupFile == <<req, CleanupList[idx]>>

\* the loop is over: the script run ends
CleanupDone ==
    /\ pc = "Cleanup"
    /\ idx > Len(CleanupList)
    /\ pc' = "End"
    /\ UNCHANGED <<req, client, fs, videoKind, video, audio, exc, msgs, triggered,
                   started, calls, result, extractErr, wrote, transcript, blog_content,
                   genReturned, outcome, idx, tried, delFailed, escaped, raised,
                   deleted>>

\* Path(file).exists() is False: nothing to do for this file
CleanupSkip ==
    /\ pc = "Cleanup"
    /\ idx <= Len(CleanupList)
    /\ CleanupFile \notin fs
    /\ tried' = tried \cup {CleanupList[idx]}
    /\ idx' = idx + 1
    /\ UNCHANGED <<pc, req, client, fs, videoKind, video, audio, exc, msgs, triggered,
                   started, calls, result, extractErr, wrote, transcript, blog_content,
                   genReturned, outcome, delFailed, escaped, raised,
                   deleted>>

\* os.unlink(file) removes the file
CleanupDelete ==
    /\ pc = "Cleanup"
    /\ idx <= Len(CleanupList)
    /\ CleanupFile \in fs
    /\ fs' = fs \ {CleanupFile}
    /\ tried' = tried \cup {CleanupList[idx]}
    /\ deleted' = deleted \cup {CleanupFile}
    /\ idx' = idx + 1
    /\ UNCHANGED <<pc, req, client, videoKind, video, audio, exc, msgs, triggered,
                   started, calls, result, extractErr, wrote, transcript, blog_content,
                   genReturned, outcome, delFailed, escaped, raised>>

\* a version with one try around the whole loop: the error leaves the loop and
\* reaches the outer handler of main
CleanupDeleteFail_Propagate ==
    /\ pc = "Cleanup"
    /\ idx <= Len(CleanupList)
    /\ CleanupFile \in fs
    /\ delFailed' = delFailed \cup {CleanupList[idx]}
    /\ tried' = tried \cup {CleanupList[idx]}
    /\ msgs' = Append(msgs, Msg("error", "upload", "exception"))
    /\ escaped' = TRUE
    /\ outcome' = "Failed"
    /\ pc' = "End"
    /\ UNCHANGED <<req, client, fs, videoKind, video, audio, exc, triggered, started,
                   calls, result, extractErr, wrote, transcript, blog_content,
                   genReturned, idx, raised,
                   deleted>>

\* os.unlink(file) raises: except Exception: st.warning(...), next file
CleanupDeleteFail ==
    /\ pc = "Cleanup"
    /\ idx <= Len(CleanupList)
    /\ CleanupFile \in fs
    /\ delFailed' = delFailed \cup {CleanupList[idx]}
    /\ tried' = tried \cup {CleanupList[idx]}
    /\ msgs' = Append(msgs, Msg("warning", "main", CleanupList[idx]))
    /\ idx' = idx + 1
    /\ UNCHANGED <<pc, req, client, fs, videoKind, video, audio, exc, triggered, started,
                   calls, result, extractErr, wrote, transcript, blog_content,
                   genReturned, outcome, escaped, raised,
                   deleted>>

\* ---------------------------------------------------------------- next script run
\* Streamlit runs the script again from the top: a new page, new locals, a new
\* temp file name; the files on disk stay
Rerun ==
    /\ pc = "End"
    /\ req < MaxRequests
    /\ req' = req + 1
    /\ pc' = "Idle"
    /\ client' = "None"
    /\ videoKind' = "ok"
    /\ video' = "None"
    /\ audio' = "None"
    /\ exc' = "none"
    /\ msgs' = <<>>
    /\ triggered' = FALSE
    /\ started' = {}
    /\ calls' = NoCalls
    /\ result' = NoResult
    /\ extractErr' = "none"
    /\ wrote' = FALSE
    /\ transcript' = NoText
    /\ blog_content' = NoText
    /\ genReturned' = NoText
    /\ outcome' = "none"
    /\ idx' = 1
    /\ tried' = {}
    /\ delFailed' = {}
    /\ escaped' = FALSE
    /\ raised' = "none"
    /\ deleted' = {}
    /\ UNCHANGED fs

Next == InitClient \/ NoUpload \/ SaveUpload \/ SaveUploadFail \/ ButtonNotPressed
        \/ ButtonPressed \/ ExternalRemove
        \/ EA_NotFound \/ EA_PathOk \/ EA_LoadFail \/ EA_LoadOk \/ EA_CheckAudio
        \/ EA_WriteOk \/ EA_WriteFail \/ EA_Except \/ EA_Finally_audio
        \/ EA_Finally_video
        \/ CheckExtracted \/ TranscribeNoCall \/ TranscribeOk \/ TranscribeFail
        \/ GenerateOk \/ GenerateFail \/ Display \/ MainExcept
        \/ CleanupDone \/ CleanupSkip \/ CleanupDelete \/ CleanupDeleteFail
        \/ Rerun

Spec == Init /\ [][Next]_vars

TypeOK ==
    /\ pc \in {"Idle", "Main", "Button", "EA_Start", "EA_Load", "EA_CheckAudio",
               "EA_Write", "EA_Except", "EA_Finally_audio", "EA_Finally_video",
               "CheckExtracted", "Transcribing", "Generating", "Display",
               "MainExcept", "Cleanup", "End"}
    /\ req \in 1..MaxRequests
    /\ client \in {"ok", "None"}
    /\ fs \subseteq ((1..MaxRequests) \X {"video", "audio"})
    /\ video \in {"None", "open", "closed", "closefailed"}
    /\ audio \in {"None", "open", "closed", "closefailed"}
    /\ outcome \in {"none", "Done", "Failed"}
    /\ \A s \in Stages : calls[s] \in 0..MaxCalls /\ result[s] \in {"none", "ok", "fail"}

\* ---------------------------------------------------------------- properties
AtEnd == pc = "End"
Both == {"video", "audio"}
Later(s) == IF s = "extraction" THEN {"transcription", "generation"}
            ELSE IF s = "transcription" THEN {"generation"} ELSE {}
StageHandler(s) == IF s = "extraction" THEN "extract_audio"
                   ELSE IF s = "transcription" THEN "transcribe_audio"
                   ELSE "generate_blog"
DownloadOffered(d) ==
    \E i \in 1..Len(msgs) : msgs[i] = Msg("download", "blog_post.md", d)

\* C1: at the end of every request in which 'Generate Blog' was triggered,
\* whatever stage failed or none, neither the video temp file nor the audio
\* temp file is on disk, provided no deletion raised.
C1_CleanupAfterTrigger ==
    (AtEnd /\ triggered /\ delFailed = {}) =>
        (video_path \notin fs /\ output_path \notin fs)

\* C1 witness: a triggered request failed in transcription and the cleanup
\* loop unlinked both files.
C1_Witness ==
    /\ AtEnd /\ triggered /\ delFailed = {}
    /\ result["transcription"] = "fail"
    /\ deleted = {video_path, output_path}

\* C2 (as claimed): at the end of every request, also one where the upload
\* failed or the button was not pressed, no temp file of the request is on
\* disk (deletions not failing).
C2_NoTempFileOutlivesRequest ==
    (AtEnd /\ delFailed = {}) => (video_path \notin fs /\ output_path \notin fs)

\* C3 (as claimed): with no client, a triggered request starts no extraction,
\* writes no audio file and calls no remote service.
C3_MissingCredentialHaltsFirst ==
    (triggered /\ client = "None") =>
        /\ "extraction" \notin started
        /\ calls["extraction"] = 0
        /\ ~wrote
        /\ output_path \notin fs
        /\ calls["transcription"] = 0
        /\ calls["generation"] = 0

\* C4: the stages run in the order extraction, transcription, generation; a
\* stage is entered or its service called only after the stage before it
\* succeeded, Done needs a successful generation, and after a failed stage no
\* later stage is started.
C4_StageOrder ==
    /\ ("transcription" \in started \/ calls["transcription"] > 0)
          => (result["extraction"] = "ok" /\ calls["extraction"] > 0)
    /\ ("generation" \in started \/ calls["generation"] > 0)
          => (result["transcription"] = "ok" /\ calls["transcription"] > 0)
    /\ (outcome = "Done" \/ pc = "Display")
          => (result["generation"] = "ok" /\ calls["generation"] > 0)
    /\ \A s \in Stages : result[s] = "fail" =>
          /\ \A l \in Later(s) : l \notin started /\ calls[l] = 0 /\ result[l] = "none"
          /\ outcome # "Done"

\* C4 witness: the transcription call was made and failed, and the request
\* ended without the generation stage.
C4_Witness ==
    /\ AtEnd
    /\ calls["transcription"] = 1
    /\ result["transcription"] = "fail"
    /\ outcome = "Failed"

\* C5: for a video without an audio stream extract_audio raises NoAudioTrack,
\* write_audiofile is never invoked, no audio file appears, and neither remote
\* service is called in that request.
C5_NoAudioTrack ==
    videoKind = "noaudio" =>
        /\ ~wrote
        /\ output_path \notin fs
        /\ calls["transcription"] = 0
        /\ calls["generation"] = 0
        /\ (video # "None" /\ pc # "EA_CheckAudio") => raised = "NoAudioTrack"
        /\ result["extraction"] # "none" =>
              (result["extraction"] = "fail" /\ extractErr = raised)

\* C5 witness: a request on a video without audio ended after extract_audio
\* raised NoAudioTrack.
C5_Witness ==
    /\ AtEnd /\ triggered
    /\ videoKind = "noaudio"
    /\ extractErr = "NoAudioTrack"

\* C6: once extract_audio has returned or raised, close() has been called on
\* every handle it opened (no handle is left open without a close attempt;
\* it is closed unless that close itself raised), and what the call returns or
\* raises is what its try body produced, also when a close raised.
C6_HandlesReleased ==
    result["extraction"] # "none" =>
        /\ video # "open"
        /\ audio # "open"
        /\ extractErr = raised
        /\ exc = raised

\* C6 witness: the write of the audio file failed, the audio close raised,
\* the video was closed, and the write error is what propagated.
C6_Witness ==
    /\ result["extraction"] = "fail"
    /\ extractErr = "WriteError"
    /\ audio = "closefailed"
    /\ video = "closed"

\* C7: a deletion error in the cleanup loop is shown as a warning only: it
\* does not reach the outer handler, the outcome stays what the pipeline
\* produced, and every file of the list is still handled.
C7_DeletionErrorIsWarning ==
    /\ \A k \in delFailed :
          \E i \in 1..Len(msgs) : msgs[i] = Msg("warning", "main", k)
    /\ triggered => ~escaped
    /\ (AtEnd /\ triggered) =>
          /\ tried = Both
          /\ (outcome = "Done") <=> (result["generation"] = "ok")
          /\ (outcome = "Failed") <=> (\E s \in Stages : result[s] = "fail")

\* C7 witness: unlinking the video file raised in a request that was Done, and
\* the audio file was unlinked after it.
C7_Witness ==
    /\ AtEnd
    /\ "video" \in delFailed
    /\ output_path \in deleted
    /\ outcome = "Done"

\* C8 (as claimed): when a stage fails, the stage's own handler has shown an
\* error, the handler of main has shown one, no later stage started and the
\* cleanup ran.
C8_EveryStageReports ==
    \A s \in Stages :
        (AtEnd /\ result[s] = "fail" /\ (s = "extraction" => extractErr # "none")) =>
            /\ Shown("error", StageHandler(s))
            /\ Shown("error", "main")
            /\ \A l \in Later(s) : l \notin started
            /\ tried = Both

\* C9: in one request the extractor, the transcription service and the
\* generation service are each invoked at most once.
C9_NoRetry == \A s \in Stages : calls[s] <= 1

\* C9 witness: the one generation call failed and the request ended.
C9_Witness ==
    /\ AtEnd
    /\ result["generation"] = "fail"
    /\ calls = [s \in Stages |-> 1]

\* C10 (as claimed): when all three stages succeed the request ends Done with
\* transcript and post shown, blog_post.md offered with the generator's
\* string, and both temp files absent.
C10_SuccessLeavesNoFiles ==
    (AtEnd /\ \A s \in Stages : result[s] = "ok") =>
        /\ outcome = "Done"
        /\ \E i \in 1..Len(msgs) : msgs[i] = Msg("text", "main", transcript)
        /\ \E i \in 1..Len(msgs) : msgs[i] = Msg("markdown", "main", genReturned)
        /\ DownloadOffered(genReturned)
        /\ video_path \notin fs /\ output_path \notin fs

\* C10 (amended): as above, except that a temp file may remain when its
\* deletion raised (and was warned about).
C10_SuccessDone ==
    (AtEnd /\ \A s \in Stages : result[s] = "ok") =>
        /\ outcome = "Done"
        /\ transcript \in Transcripts /\ genReturned \in Blogs
        /\ \E i \in 1..Len(msgs) : msgs[i] = Msg("text", "main", transcript)
        /\ \E i \in 1..Len(msgs) : msgs[i] = Msg("markdown", "main", genReturned)
        /\ DownloadOffered(genReturned)
        /\ \A d \in Blogs \cup Transcripts : DownloadOffered(d) => d = genReturned
        /\ \A k \in Both : <<req, k>> \in fs => k \in delFailed

\* C10 witness: a request ended Done and both files were unlinked.
C10_Witness ==
    /\ AtEnd /\ outcome = "Done"
    /\ DownloadOffered(genReturned)
    /\ deleted = {video_path, output_path}
    /\ fs \cap {video_path, output_path} = {}
====
